---- MODULE Spec2Model ----
(***************************************************************************)
(* State-machine model of the Tetris engine in src/src/TetrisCanvas.jsx.  *)
(*                                                                         *)
(* The component keeps its game state in React state hooks and reads it   *)
(* through the closure of the render that created each callback.  The     *)
(* model follows that: every handler is a function of                     *)
(*   S  the render whose closure the handler reads (board, active, ...),  *)
(*   P  the committed state its queued updates are applied to.            *)
(* A setX(value) call replaces a field of P, a setX(f) call applies f to  *)
(* the field of P, and the updater that spawn() hands to setActive runs   *)
(* when the component renders next, i.e. after the handler has returned,  *)
(* so the set calls nested in it land after the handler's own.            *)
(* Callbacks registered by effects or render (loop, onKey, touch and      *)
(* click handlers) belong to the latest committed render (S = P); reset   *)
(* (useCallback with no dependencies) belongs to the first render, and    *)
(* the function given to startHold belongs to the render of the press.    *)
(*                                                                         *)
(* Matrices and the board are sequences, so a cell (row y, column x) of   *)
(* the source is element [y + 1][x + 1] here; x and y keep the source's   *)
(* 0-based values.                                                         *)
(***************************************************************************)
EXTENDS Integers, Sequences, FiniteSets, TLC

\* ----- Game constants (TetrisCanvas.jsx 11-19) -----
COLS == 10
ROWS == 20
DROP_BASE_MS == 1000

\* JS null: an empty board cell, an empty hold slot
null == "null"

\* Shapes and colors
TETROMINOES ==
  [ I |-> [m |-> << <<1, 1, 1, 1>> >>,            c |-> "#00FFFF"],
    O |-> [m |-> << <<1, 1>>, <<1, 1>> >>,        c |-> "#F7D154"],
    T |-> [m |-> << <<0, 1, 0>>, <<1, 1, 1>> >>,  c |-> "#B57AD2"],
    S |-> [m |-> << <<0, 1, 1>>, <<1, 1, 0>> >>,  c |-> "#57D98C"],
    Z |-> [m |-> << <<1, 1, 0>>, <<0, 1, 1>> >>,  c |-> "#F26D6D"],
    J |-> [m |-> << <<1, 0, 0>>, <<1, 1, 1>> >>,  c |-> "#6DA8F2"],
    L |-> [m |-> << <<0, 0, 1>>, <<1, 1, 1>> >>,  c |-> "#F2A96D"] ]

ORDER == <<"I", "O", "T", "S", "Z", "J", "L">>

Kinds == {ORDER[i] : i \in 1..Len(ORDER)}

\* The value of `active` before the first spawn (JS null), as a record so
\* that it compares with pieces.
NoPiece == [x |-> 0, y |-> 0, m |-> <<>>, c |-> null, k |-> null]

IsNull(p) == p.k = null

\* ----- Helpers -----
emptyBoard(r, c) == [y \in 1..r |-> [x \in 1..c |-> null]]

\* bag() returns ORDER shuffled: any permutation of the 7 kinds
IsBag(b) ==
  /\ Len(b) = Len(ORDER)
  /\ \A k \in Kinds : \E i \in 1..Len(b) : b[i] = k

getTopOffset(m) ==
  LET rows == {y \in 1..Len(m) : \E x \in 1..Len(m[y]) : m[y][x] # 0}
  IN  IF rows = {} THEN 0
      ELSE (CHOOSE y \in rows : \A z \in rows : y <= z) - 1

\* Occupied cells of piece p as <<nx, ny>> pairs in board coordinates
\* (the two nested loops of collides and mergePiece)
Cells(p) ==
  UNION {{<<p.x + x - 1, p.y + y - 1>> :
            x \in {i \in 1..Len(p.m[y]) : p.m[y][i] # 0}} : y \in 1..Len(p.m)}

\* collides without the test ny >= 0: a cell above the grid counts as a hit
collidesAboveTop(b, p) ==
  \E c \in Cells(p) :
     \/ c[1] < 0 \/ c[1] >= COLS \/ c[2] >= ROWS
     \/ c[2] < 0
     \/ b[c[2] + 1][c[1] + 1] # null

collides(b, p) ==
  \E c \in Cells(p) :
     \/ c[1] < 0 \/ c[1] >= COLS \/ c[2] >= ROWS
     \/ (c[2] >= 0 /\ b[c[2] + 1][c[1] + 1] # null)

\* nb = cloneBoard(b), then nb[ny][nx] = p.c for the cells inside the grid
RECURSIVE writeCells(_, _, _)
writeCells(nb, cells, c) ==
  IF cells = {} THEN nb
  ELSE LET cell == CHOOSE e \in cells : TRUE
           nx   == cell[1]
           ny   == cell[2]
       IN  writeCells(IF ny >= 0 /\ ny < ROWS /\ nx >= 0 /\ nx < COLS
                      THEN [nb EXCEPT ![ny + 1][nx + 1] = c]
                      ELSE nb,
                      cells \ {cell}, c)

mergePiece(b, p) == writeCells(b, Cells(p), p.c)

\* The same as arrays on a heap.  A grid is a sequence of row addresses, the
\* heap the sequence of the rows stored at addresses 1, 2, ...

\* b.slice(): the copy shares the rows of b
cloneBoardShallow(heap, b) == [heap |-> heap, ref |-> b]

\* b.map((row) => row.slice()): fresh rows holding copies
cloneBoard(heap, b) ==
  [heap |-> heap \o [y \in 1..Len(b) |-> heap[b[y]]],
   ref  |-> [y \in 1..Len(b) |-> Len(heap) + y]]

RECURSIVE writeRefs(_, _, _, _)
writeRefs(heap, nb, cells, c) ==
  IF cells = {} THEN heap
  ELSE LET cell == CHOOSE e \in cells : TRUE
           nx   == cell[1]
           ny   == cell[2]
       IN  writeRefs(IF ny >= 0 /\ ny < ROWS /\ nx >= 0 /\ nx < COLS
                     THEN [heap EXCEPT ![nb[ny + 1]][nx + 1] = c]
                     ELSE heap,
                     nb, cells \ {cell}, c)

\* mergePiece on the heap: the heap after the call and the grid returned
mergePieceRefs(heap, b, p) ==
  LET nb == cloneBoard(heap, b)
  IN  [heap |-> writeRefs(nb.heap, nb.ref, Cells(p), p.c), ref |-> nb.ref]

\* The contents of the grid at ref
Deref(heap, ref) == [y \in 1..Len(ref) |-> heap[ref[y]]]

RowFull(row) == \A x \in 1..Len(row) : row[x] # null

\* clearLines putting the empty rows below the kept ones
clearLinesBottomFill(b) ==
  LET rows == {y \in 1..ROWS : RowFull(b[y])}
      kept == SelectSeq(b, LAMBDA row : ~RowFull(row))
      n    == Cardinality(rows)
  IN  IF rows = {} THEN [board |-> b, cleared |-> 0]
      ELSE [board   |-> kept \o [y \in 1..n |-> [x \in 1..COLS |-> null]],
            cleared |-> n]

clearLines(b) ==
  LET rows == {y \in 1..ROWS : RowFull(b[y])}
      kept == SelectSeq(b, LAMBDA row : ~RowFull(row))
      n    == Cardinality(rows)
  IN  IF rows = {} THEN [board |-> b, cleared |-> 0]
      ELSE [board   |-> [y \in 1..n |-> [x \in 1..COLS |-> null]] \o kept,
            cleared |-> n]

\* scoreFor reads `level` from the closure of its render
scoreFor(level_, n) ==
  IF n = 1 THEN 100 * level_
  ELSE IF n = 2 THEN 300 * level_
  ELSE IF n = 3 THEN 500 * level_
  ELSE IF n >= 4 THEN 800 * level_
  ELSE 0

\* ----- Rotation helpers -----
rotateMatrixCW(m) ==
  LET h == Len(m)
      w == Len(m[1])
  IN  [x \in 1..w |-> [j \in 1..h |-> m[h + 1 - j][x]]]

rotateMatrixCCW(m) ==
  LET h == Len(m)
      w == Len(m[1])
  IN  [i \in 1..w |-> [y \in 1..h |-> m[y][w + 1 - i]]]

\* ----- Pieces and spawn -----
\* The piece object built at lines 222-226 (and 369-373): the canonical
\* matrix of kind k, centered, its first occupied row at row 0
pieceOf(k) ==
  LET shape == TETROMINOES[k]
      m     == shape.m
  IN  [x |-> (COLS - Len(m[1])) \div 2, y |-> -getTopOffset(m),
       m |-> m, c |-> shape.c, k |-> k]

\* spawn(resetAcc) only queues an updater on `active`; S is the render whose
\* spawn was called
spawn(S, P, resetAcc) ==
  [P EXCEPT !.spawns = Append(@, [S |-> S, resetAcc |-> resetAcc])]

\* The updater of lines 212-233, run when the component renders next.  It
\* reads queue, nextBag and board of S; nb is what bag() returns on a refill.
\* over is a ghost field: a spawn found a collision since the last reset.
\* The updater leaving the head in the queue
spawnUpdaterKeepsHead(S, P, nb, resetAcc) ==
  LET piece == pieceOf(Head(S.queue))
      hit   == collides(S.board, piece)
  IN  [P EXCEPT !.queue   = S.queue,
                !.running = IF hit THEN FALSE ELSE @,
                !.over    = IF hit THEN TRUE ELSE @,
                !.acc     = IF resetAcc THEN 0 ELSE @,
                !.canHold = TRUE,
                !.active  = piece]

spawnUpdater(S, P, nb, resetAcc) ==
  LET head   == Head(S.queue)
      rest   == Tail(S.queue)
      refill == Len(rest) = 0
      piece  == pieceOf(head)
      hit    == collides(S.board, piece)
  IN  [P EXCEPT !.nextBag = IF refill THEN nb ELSE @,
                !.queue   = IF refill THEN S.nextBag ELSE rest,
                !.running = IF hit THEN FALSE ELSE @,
                !.over    = IF hit THEN TRUE ELSE @,
                !.acc     = IF resetAcc THEN 0 ELSE @,
                !.canHold = TRUE,
                !.active  = piece]

\* The render that follows a handler: the queued updaters run in order
RECURSIVE Render(_, _)
Render(P, nb) ==
  IF P.spawns = <<>> THEN P
  ELSE LET u == Head(P.spawns)
       IN  Render(spawnUpdater(u.S, [P EXCEPT !.spawns = Tail(@)], nb, u.resetAcc), nb)

\* draws is a ghost field: the kinds that became the active piece by a spawn
\* since the last reset, one entry per render that ran spawn updaters
Rendered(H, nb) ==
  LET P == Render(H, nb)
  IN  IF H.spawns = <<>> THEN P ELSE [P EXCEPT !.draws = Append(@, P.active.k)]

\* ----- Actions of the component, as functions of closure S and state P -----
stepDown(S, P) ==
  IF IsNull(S.active) THEN P
  ELSE LET next == [S.active EXCEPT !.y = @ + 1]
       IN  IF ~collides(S.board, next) THEN [P EXCEPT !.active = next]
           ELSE \* lock piece
             LET merged == mergePiece(S.board, S.active)
                 cl     == clearLines(merged)
                 P1     == [P EXCEPT !.board = cl.board]
                 P2     == IF cl.cleared > 0
                           THEN [P1 EXCEPT !.lines = @ + cl.cleared,
                                           !.score = @ + scoreFor(S.level, cl.cleared),
                                           !.level = 1 + ((S.lines + cl.cleared) \div 10)]
                           ELSE P1
             IN  spawn(S, P2, TRUE)

softDrop(S, P) ==
  IF IsNull(S.active) THEN P
  ELSE LET next == [S.active EXCEPT !.y = @ + 1]
       IN  IF ~collides(S.board, next)
           THEN [P EXCEPT !.active = next, !.score = @ + 1]
           ELSE P

\* The while loop of hardDrop and getGhost: rows the piece p can still
\* descend on board b
RECURSIVE dropDist(_, _)
dropDist(b, p) ==
  IF collides(b, [p EXCEPT !.y = @ + 1]) THEN 0
  ELSE 1 + dropDist(b, [p EXCEPT !.y = @ + 1])

getGhost(b, activePiece) ==
  [activePiece EXCEPT !.y = @ + dropDist(b, activePiece)]

\* hardDrop locking the piece in the row it is in
hardDropInPlace(S, P) ==
  IF IsNull(S.active) THEN P
  ELSE LET cl == clearLines(mergePiece(S.board, S.active))
           P1 == [P EXCEPT !.board = cl.board]
           P2 == IF cl.cleared > 0
                 THEN [P1 EXCEPT !.lines = @ + cl.cleared,
                                 !.score = @ + scoreFor(S.level, cl.cleared),
                                 !.level = 1 + ((S.lines + cl.cleared) \div 10)]
                 ELSE P1
       IN  spawn(S, P2, TRUE)

\* hardDrop paying one point per dropped row
hardDropOnePoint(S, P) ==
  IF IsNull(S.active) THEN P
  ELSE LET dist   == dropDist(S.board, S.active)
           ghost  == [S.active EXCEPT !.y = @ + dist]
           merged == mergePiece(S.board, ghost)
           cl     == clearLines(merged)
           P1     == [P EXCEPT !.active = ghost,
                               !.score  = @ + dist,
                               !.board  = cl.board]
           P2     == IF cl.cleared > 0
                     THEN [P1 EXCEPT !.lines = @ + cl.cleared,
                                     !.score = @ + scoreFor(S.level, cl.cleared),
                                     !.level = 1 + ((S.lines + cl.cleared) \div 10)]
                     ELSE P1
       IN  spawn(S, P2, TRUE)

hardDrop(S, P) ==
  IF IsNull(S.active) THEN P
  ELSE LET dist   == dropDist(S.board, S.active)
           ghost  == [S.active EXCEPT !.y = @ + dist]
           merged == mergePiece(S.board, ghost)
           cl     == clearLines(merged)
           P1     == [P EXCEPT !.active = ghost,
                               !.score  = @ + dist * 2,
                               !.board  = cl.board]
           P2     == IF cl.cleared > 0
                     THEN [P1 EXCEPT !.lines = @ + cl.cleared,
                                     !.score = @ + scoreFor(S.level, cl.cleared),
                                     !.level = 1 + ((S.lines + cl.cleared) \div 10)]
                     ELSE P1
       IN  spawn(S, P2, TRUE)

\* kicks with a third column of reach
kicksWide == <<0, -1, 1, -2, 2, -3, 3>>

kicks == <<0, -1, 1, -2, 2>>

rotFn(dir, m) == IF dir = "CW" THEN rotateMatrixCW(m) ELSE rotateMatrixCCW(m)

\* rotate adopting the last fitting kick instead of the first
rotateLastFit(S, P, dir) ==
  IF IsNull(S.active) THEN P
  ELSE LET rotated == rotFn(dir, S.active.m)
           test(i) == [S.active EXCEPT !.m = rotated, !.x = @ + kicks[i]]
           fits    == {i \in 1..Len(kicks) : ~collides(S.board, test(i))}
       IN  IF fits = {} THEN P
           ELSE [P EXCEPT !.active = test(CHOOSE i \in fits : \A j \in fits : i >= j)]

rotate(S, P, dir) ==
  IF IsNull(S.active) THEN P
  ELSE LET rotated == rotFn(dir, S.active.m)
           test(i) == [S.active EXCEPT !.m = rotated, !.x = @ + kicks[i]]
           fits    == {i \in 1..Len(kicks) : ~collides(S.board, test(i))}
       IN  IF fits = {} THEN P
           ELSE [P EXCEPT !.active = test(CHOOSE i \in fits : \A j \in fits : i <= j)]

\* doHold whose swap keeps the orientation and position of the active piece
doHoldInPlace(S, P) ==
  IF ~S.canHold \/ IsNull(S.active) THEN P
  ELSE IF S.hold = null
       THEN [spawn(S, [P EXCEPT !.hold = S.active.k], TRUE) EXCEPT !.canHold = FALSE]
       ELSE [P EXCEPT !.hold    = S.active.k,
                      !.active  = [pieceOf(S.hold) EXCEPT !.x = S.active.x, !.y = S.active.y],
                      !.canHold = FALSE]

doHold(S, P) ==
  IF ~S.canHold \/ IsNull(S.active) THEN P
  ELSE IF S.hold = null
       THEN [spawn(S, [P EXCEPT !.hold = S.active.k], TRUE) EXCEPT !.canHold = FALSE]
       ELSE [P EXCEPT !.hold    = S.active.k,
                      !.active  = pieceOf(S.hold),
                      !.canHold = FALSE]

tryMove(S, P, dx, dy, m) ==
  IF IsNull(S.active) THEN P
  ELSE LET test == [S.active EXCEPT !.x = @ + dx, !.y = @ + dy, !.m = m]
       IN  IF ~collides(S.board, test) THEN [P EXCEPT !.active = test] ELSE P

\* reset: b1 and b2 are the two bag() results; its spawn is the one of the
\* render S that created reset.  bag1 is a ghost field: the bag reset passed
\* to setQueue.
reset(S, P, b1, b2) ==
  spawn(S,
        [P EXCEPT !.board    = emptyBoard(ROWS, COLS),
                  !.queue    = b1,
                  !.nextBag  = b2,
                  !.active   = NoPiece,
                  !.score    = 0,
                  !.lines    = 0,
                  !.level    = 1,
                  !.hold     = null,
                  !.canHold  = TRUE,
                  !.acc      = 0,
                  !.lastTime = 0,
                  !.running  = TRUE,
                  !.over     = FALSE,
                  !.draws    = <<>>,
                  !.bag1     = b1],
        TRUE)

Max(a, b) == IF a >= b THEN a ELSE b

\* The while loop of the main loop (lines 124-127); stepDown is the one of
\* render S on every iteration.  ticks is a ghost field counting the calls.
RECURSIVE drain(_, _, _)
drain(S, P, dropMs) ==
  IF P.acc >= dropMs
  THEN drain(S, stepDown(S, [P EXCEPT !.acc = @ - dropMs, !.ticks = @ + 1]), dropMs)
  ELSE P

\* One animation frame at time t > 0 (ms).  clock and paused are ghost
\* fields: the time of the latest frame, and the time that frames saw pass
\* while the game was not running.
dropMsOf(level_) == Max(100, DROP_BASE_MS - (level_ - 1) * 75)

\* loop whose paused branch does not move lastTimeRef
loopKeepsLast(S, P, t) ==
  IF ~S.running
  THEN [P EXCEPT !.paused = @ + (t - P.clock), !.clock = t]
  ELSE LET last   == IF P.lastTime # 0 THEN P.lastTime ELSE t
           dt     == t - last
           dropMs == dropMsOf(S.level)
       IN  drain(S, [P EXCEPT !.lastTime = t, !.clock = t, !.acc = @ + dt], dropMs)

loop(S, P, t) ==
  IF ~S.running
  THEN [P EXCEPT !.lastTime = t, !.paused = @ + (t - P.clock), !.clock = t]
  ELSE LET last   == IF P.lastTime # 0 THEN P.lastTime ELSE t
           dt     == t - last
           dropMs == dropMsOf(S.level)
       IN  drain(S, [P EXCEPT !.lastTime = t, !.clock = t, !.acc = @ + dt], dropMs)

\* Keyboard controls.  F is the first render, whose reset onKey calls.
onKey(S, P, F, code, b1, b2) ==
  IF IsNull(S.active) THEN P
  ELSE IF code = "KeyP" THEN [P EXCEPT !.running = ~@]
  ELSE IF code = "KeyR" THEN reset(F, P, b1, b2)
  ELSE IF ~S.running THEN P
  ELSE IF code = "ArrowLeft" THEN tryMove(S, P, -1, 0, S.active.m)
  ELSE IF code = "ArrowRight" THEN tryMove(S, P, 1, 0, S.active.m)
  ELSE IF code = "ArrowDown" THEN softDrop(S, P)
  ELSE IF code = "Space" THEN hardDrop(S, P)
  ELSE IF code = "ArrowUp" \/ code = "KeyX" THEN rotate(S, P, "CW")
  ELSE IF code = "KeyZ" THEN rotate(S, P, "CCW")
  ELSE IF code = "ShiftLeft" \/ code = "ShiftRight" \/ code = "KeyC" THEN doHold(S, P)
  ELSE P

\* Touch gestures on the canvas, g the gesture decoded from the swipe
onCanvasTouchEnd(S, P, g) ==
  IF IsNull(S.active) \/ ~S.running THEN P
  ELSE IF g = "tap" THEN rotate(S, P, "CW")
  ELSE IF g = "right" THEN tryMove(S, P, 1, 0, S.active.m)
  ELSE IF g = "left" THEN tryMove(S, P, -1, 0, S.active.m)
  ELSE IF g = "down" THEN softDrop(S, softDrop(S, P))
  ELSE hardDrop(S, P)

\* The function a press-and-hold button passes to startHold
holdFn(S, P, fn) ==
  IF fn = "left" THEN tryMove(S, P, -1, 0, S.active.m)
  ELSE IF fn = "right" THEN tryMove(S, P, 1, 0, S.active.m)
  ELSE softDrop(S, P)

\* The onClick handlers of the on-screen buttons
onClick(S, P, F, btn, b1, b2) ==
  IF btn = "rotateCCW" THEN rotate(S, P, "CCW")
  ELSE IF btn = "rotateCW" THEN rotate(S, P, "CW")
  ELSE IF btn = "hardDrop" THEN hardDrop(S, P)
  ELSE IF btn = "doHold" THEN doHold(S, P)
  ELSE IF btn = "pause" THEN [P EXCEPT !.running = ~@]
  ELSE reset(F, P, b1, b2)

\* The status the render shows: no overlay while running; otherwise the
\* overlay, whose text is chosen by whether there is an active piece
statusOverlay(run, act) ==
  IF run THEN "Running"
  ELSE IF ~IsNull(act) THEN "Paused" ELSE "Game Over"

\* ----- Bounds of the model -----
\* bag() is modelled by NumBags of the 5040 permutations: rotations of ORDER
NumBags == 2
\* Handler invocations explored after the start state
MaxSteps == 3

\* A bag holding one kind seven times
BagAtRepeat(i) == [j \in 1..Len(ORDER) |-> ORDER[(i % Len(ORDER)) + 1]]

BagAt(i) == [j \in 1..Len(ORDER) |-> ORDER[((j - 1 + i) % Len(ORDER)) + 1]]

Bags == {BagAt(i) : i \in 0..(NumBags - 1)}

\* Frame deltas in ms: half a drop interval of level 1, one interval, two and
\* a half (a slow frame), ten (a tab that was hidden)
Deltas == {500, 1000, 2500, 10000}

KeyCodes == {"KeyP", "KeyR", "ArrowLeft", "ArrowRight", "ArrowDown", "Space",
             "ArrowUp", "KeyX", "KeyZ", "ShiftLeft", "ShiftRight", "KeyC"}

Gestures == {"tap", "left", "right", "down", "up"}

HoldButtons == {"left", "soft", "right"}

ClickButtons == {"rotateCCW", "rotateCW", "hardDrop", "doHold", "pause", "restart"}

\* ----- State -----
VARIABLES
  board, active, queue, nextBag, running, score, lines, level, hold, canHold,
  accRef,        \* accRef.current
  lastTimeRef,   \* lastTimeRef.current
  holdTimerRef,  \* the interval of startHold: [fn, S], fn = "none" when cleared
  firstRender,   \* the state of the first render, whose closure reset keeps
  gameOver,      \* ghost: a spawn has collided since the last reset
  clock,         \* ghost: the time of the latest animation frame
  pausedMs,      \* ghost: time that frames saw pass while not running
  draws,         \* ghost: the kinds spawned from the queue since the last reset
  ev,            \* ghost: the handler that ran last and what it did
  steps          \* ghost: handlers run since the start state

game == <<board, active, queue, nextBag, running, score, lines, level, hold, canHold>>

vars == <<board, active, queue, nextBag, running, score, lines, level, hold, canHold,
          accRef, lastTimeRef, holdTimerRef, firstRender, gameOver, clock,
          pausedMs, draws, ev, steps>>

\* The committed state as the record the handlers work on
Cur ==
  [board |-> board, active |-> active, queue |-> queue, nextBag |-> nextBag,
   running |-> running, score |-> score, lines |-> lines, level |-> level,
   hold |-> hold, canHold |-> canHold, acc |-> accRef, lastTime |-> lastTimeRef,
   over |-> gameOver, clock |-> clock, paused |-> pausedMs, draws |-> draws,
   ticks |-> 0, bag1 |-> <<>>, spawns |-> <<>>]

\* The state of the first render: the useState initializers of lines 44-58
FirstRender(b1, b2) ==
  [board |-> emptyBoard(ROWS, COLS), active |-> NoPiece, queue |-> b1, nextBag |-> b2,
   running |-> TRUE, score |-> 0, lines |-> 0, level |-> 1,
   hold |-> null, canHold |-> TRUE, acc |-> 0, lastTime |-> 0,
   over |-> FALSE, clock |-> 0, paused |-> 0, draws |-> <<>>,
   ticks |-> 0, bag1 |-> <<>>, spawns |-> <<>>]

\* The mount effect of lines 61-66: spawn() of the first render
Mounted(F, nb) ==
  IF IsNull(F.active) THEN Rendered(spawn(F, F, FALSE), nb) ELSE F

NoTimer == [fn |-> "none", S |-> [active |-> NoPiece, board |-> emptyBoard(ROWS, COLS)]]

\* ----- Start states -----
\* Each start state is the mounted component after a sequence of key presses
\* and animation frames, so it is a state the program reaches: q0 and nb0 are
\* the bags of the first render, nb the bag drawn at a refill, keys the key
\* codes pressed, "Frame" standing for a frame 500 ms after the previous one.
RECURSIVE Replay(_, _, _, _, _)
Replay(F, P0, keys, nb, n) ==
  IF n = 0 THEN P0
  ELSE LET P == Replay(F, P0, keys, nb, n - 1)
       IN  IF IsNull(P.active) THEN P  \* no key acts before the first spawn
           ELSE IF keys[n] = "Frame" THEN Rendered(loop(P, P, P.clock + 500), nb)
           ELSE Rendered(onKey(P, P, F, keys[n], nb, nb), nb)

Rep(n, code) == [i \in 1..n |-> code]

Scenarios ==
  << \* the mounted component
     [q0 |-> BagAt(0), nb0 |-> BagAt(1), nb |-> BagAt(0), keys |-> <<>>],
     \* an I piece turned vertical and moved against the right wall
     [q0 |-> BagAt(0), nb0 |-> BagAt(1), nb |-> BagAt(0),
      keys |-> <<"ArrowUp">> \o Rep(6, "ArrowRight")],
     \* J and L dropped side by side, an I piece resting on the floor right of
     \* them: its lock completes the bottom row
     [q0 |-> BagAt(5), nb0 |-> BagAt(0), nb |-> BagAt(1),
      keys |-> Rep(3, "ArrowLeft") \o <<"Space", "Space">> \o Rep(3, "ArrowRight")
               \o Rep(19, "ArrowDown")],
     \* five pieces dropped on the middle columns: one kind is left in the queue
     [q0 |-> BagAt(0), nb0 |-> BagAt(1), nb |-> BagAt(0), keys |-> Rep(5, "Space")],
     \* nine pieces dropped on the middle columns: the stack reaches row 3
     [q0 |-> BagAt(0), nb0 |-> BagAt(1), nb |-> BagAt(0), keys |-> Rep(9, "Space")],
     \* two frames, the second leaving half a drop interval in the
     \* accumulator, then the game paused
     [q0 |-> BagAt(0), nb0 |-> BagAt(1), nb |-> BagAt(0),
      keys |-> <<"Frame", "Frame", "KeyP">>],
     \* the I piece held, the O piece moved against the left wall over the
     \* empty board
     [q0 |-> BagAt(0), nb0 |-> BagAt(1), nb |-> BagAt(0),
      keys |-> <<"KeyC">> \o Rep(4, "ArrowLeft")]
  >>

\* Keys (j - 1) * ChunkLen + 1 .. j * ChunkLen of a scenario
ChunkLen == 7

Chunk(keys, j) ==
  SubSeq(keys, (j - 1) * ChunkLen + 1,
         IF j * ChunkLen <= Len(keys) THEN j * ChunkLen ELSE Len(keys))

Play(F, P, keys, nb) == Replay(F, P, keys, nb, Len(keys))

Init ==
  \E i \in DOMAIN Scenarios :
    \E sc \in {Scenarios[i]} : \E F \in {FirstRender(sc.q0, sc.nb0)} :
    \E P0 \in {Mounted(F, sc.nb)} :
    \E P1 \in {Play(F, P0, Chunk(sc.keys, 1), sc.nb)} :
    \E P2 \in {Play(F, P1, Chunk(sc.keys, 2), sc.nb)} :
    \E P3 \in {Play(F, P2, Chunk(sc.keys, 3), sc.nb)} :
    \E P  \in {Play(F, P3, Chunk(sc.keys, 4), sc.nb)} :
        /\ Len(sc.keys) <= 4 * ChunkLen
        /\ board = P.board /\ active = P.active /\ queue = P.queue
        /\ nextBag = P.nextBag /\ running = P.running /\ score = P.score
        /\ lines = P.lines /\ level = P.level /\ hold = P.hold
        /\ canHold = P.canHold /\ accRef = P.acc /\ lastTimeRef = P.lastTime
        /\ gameOver = P.over /\ clock = P.clock /\ pausedMs = P.paused
        /\ draws = P.draws
        /\ holdTimerRef = NoTimer
        /\ firstRender = F
        /\ ev = [cmd |-> "None", ticks |-> 0, locks |-> 0, took |-> FALSE, bag1 |-> <<>>]
        /\ steps = 0

\* ----- Steps -----
\* The render after handler result H commits its state
\* bag() is called by a spawn updater only when the rest of its queue is empty
RefillBags(H) ==
  IF \E i \in DOMAIN H.spawns : Len(H.spawns[i].S.queue) = 1 THEN Bags ELSE {ORDER}

\* reset calls bag() twice
ResetBags(isReset) == IF isReset THEN Bags ELSE {ORDER}

\* ev: the command that ran last, the stepDown calls of its frame, the lock
\* sequences (merge, clear, spawn) it ran, whether it changed `game`, and the
\* first bag a reset drew
Commit(H, cmd, ticks) ==
  \E nb \in RefillBags(H) : \E P \in {Rendered(H, nb)} :
      /\ board' = P.board /\ active' = P.active /\ queue' = P.queue
      /\ nextBag' = P.nextBag /\ running' = P.running /\ score' = P.score
      /\ lines' = P.lines /\ level' = P.level /\ hold' = P.hold
      /\ canHold' = P.canHold /\ accRef' = P.acc /\ lastTimeRef' = P.lastTime
      /\ gameOver' = P.over /\ clock' = P.clock /\ pausedMs' = P.paused
      /\ draws' = P.draws
      /\ ev' = [cmd   |-> cmd,
                ticks |-> ticks,
                locks |-> IF cmd \in {"Tick", "HardDrop"} THEN Len(H.spawns) ELSE 0,
                took  |-> <<P.board, P.active, P.queue, P.nextBag, P.running,
                            P.score, P.lines, P.level, P.hold, P.canHold>> # game,
                bag1  |-> P.bag1]
      /\ steps' = steps + 1
      /\ UNCHANGED firstRender

CmdOfKey(code) ==
  IF code = "KeyP" THEN "TogglePause"
  ELSE IF code = "KeyR" THEN "Restart"
  ELSE IF code = "ArrowLeft" THEN "MoveLeft"
  ELSE IF code = "ArrowRight" THEN "MoveRight"
  ELSE IF code = "ArrowDown" THEN "SoftDrop"
  ELSE IF code = "Space" THEN "HardDrop"
  ELSE IF code = "KeyZ" THEN "RotateCCW"
  ELSE IF code \in {"ArrowUp", "KeyX"} THEN "RotateCW"
  ELSE "Hold"

CmdOfGesture(g) ==
  IF g = "tap" THEN "RotateCW"
  ELSE IF g = "left" THEN "MoveLeft"
  ELSE IF g = "right" THEN "MoveRight"
  ELSE IF g = "down" THEN "SoftDrop"
  ELSE "HardDrop"

CmdOfHoldButton(fn) ==
  IF fn = "left" THEN "MoveLeft" ELSE IF fn = "right" THEN "MoveRight" ELSE "SoftDrop"

CmdOfClick(btn) ==
  IF btn = "rotateCCW" THEN "RotateCCW"
  ELSE IF btn = "rotateCW" THEN "RotateCW"
  ELSE IF btn = "hardDrop" THEN "HardDrop"
  ELSE IF btn = "doHold" THEN "Hold"
  ELSE IF btn = "pause" THEN "TogglePause"
  ELSE "Restart"

\* requestAnimationFrame calls loop
Frame ==
  /\ steps < MaxSteps
  /\ \E dt \in Deltas :
       \E C \in {Cur} : \E H \in {loop(C, C, clock + dt)} :
           /\ Commit(H, "Tick", H.ticks)
           /\ UNCHANGED holdTimerRef

\* A keydown event calls onKey
KeyDown ==
  /\ steps < MaxSteps
  /\ \E code \in KeyCodes : \E b1 \in ResetBags(code = "KeyR"), b2 \in ResetBags(code = "KeyR") :
       \E C \in {Cur} : \E H \in {onKey(C, C, firstRender, code, b1, b2)} :
           /\ Commit(H, CmdOfKey(code), 0)
           /\ UNCHANGED holdTimerRef

\* A touch on the canvas ends: onCanvasTouchEnd with the decoded gesture
\* (the debounce and missing-start returns change nothing and are left out)
TouchEnd ==
  /\ steps < MaxSteps
  /\ \E g \in Gestures :
       \E C \in {Cur} : \E H \in {onCanvasTouchEnd(C, C, g)} :
           /\ Commit(H, CmdOfGesture(g), 0)
           /\ UNCHANGED holdTimerRef

\* A press-and-hold button goes down: startHold(fn) calls fn once and keeps
\* it, with the closure of this render, in an interval timer
StartHold ==
  /\ steps < MaxSteps
  /\ \E fn \in HoldButtons :
       \E C \in {Cur} : \E H \in {holdFn(C, C, fn)} :
           /\ Commit(H, CmdOfHoldButton(fn), 0)
           /\ holdTimerRef' = [fn |-> fn, S |-> [active |-> active, board |-> board]]

\* The interval timer fires: fn of the render of the press runs again
HoldInterval ==
  /\ steps < MaxSteps
  /\ holdTimerRef.fn # "none"
  /\ \E C \in {Cur} : \E H \in {holdFn(holdTimerRef.S, C, holdTimerRef.fn)} :
           /\ Commit(H, CmdOfHoldButton(holdTimerRef.fn), 0)
           /\ UNCHANGED holdTimerRef

\* The button goes up: stopHold
StopHold ==
  /\ steps < MaxSteps
  /\ holdTimerRef.fn # "none"
  /\ holdTimerRef' = NoTimer
  /\ ev' = [cmd |-> "None", ticks |-> 0, locks |-> 0, took |-> FALSE, bag1 |-> <<>>]
  /\ steps' = steps + 1
  /\ UNCHANGED <<game, accRef, lastTimeRef, firstRender, gameOver, clock,
                 pausedMs, draws>>

\* A click on one of the other on-screen buttons
Click ==
  /\ steps < MaxSteps
  /\ \E btn \in ClickButtons : \E b1 \in ResetBags(btn = "restart"), b2 \in ResetBags(btn = "restart") :
       \E C \in {Cur} : \E H \in {onClick(C, C, firstRender, btn, b1, b2)} :
           /\ Commit(H, CmdOfClick(btn), 0)
           /\ UNCHANGED holdTimerRef

Next ==
  \/ Frame
  \/ KeyDown
  \/ TouchEnd
  \/ StartHold
  \/ HoldInterval
  \/ StopHold
  \/ Click

Spec == Init /\ [][Next]_vars

\* ----- The draw sequence on its own -----
\* spawn chooses the kind from queue and nextBag alone, so the sequence of
\* draws is that of spawn called over and over on a board that stays empty.
\* Draws explored from the mounted component
MaxDraws == 17

DrawInit ==
  \E b1 \in Bags, b2 \in Bags :
    \E F \in {FirstRender(b1, b2)} : \E P \in {Mounted(F, ORDER)} :
        /\ board = P.board /\ active = P.active /\ queue = P.queue
        /\ nextBag = P.nextBag /\ running = P.running /\ score = P.score
        /\ lines = P.lines /\ level = P.level /\ hold = P.hold
        /\ canHold = P.canHold /\ accRef = P.acc /\ lastTimeRef = P.lastTime
        /\ gameOver = P.over /\ clock = P.clock /\ pausedMs = P.paused
        /\ draws = P.draws
        /\ holdTimerRef = NoTimer
        /\ firstRender = F
        /\ ev = [cmd |-> "None", ticks |-> 0, locks |-> 0, took |-> FALSE, bag1 |-> <<>>]
        /\ steps = 0

\* spawn(true), as a lock sequence ends with, and the render that follows
Draw ==
  /\ Len(draws) < MaxDraws
  /\ \E C \in {Cur} : \E H \in {spawn(C, C, TRUE)} :
        /\ Commit(H, "Draw", 0)
        /\ UNCHANGED holdTimerRef

DrawNext == Draw

DrawSpec == DrawInit /\ [][DrawNext]_vars

\* ----- collides, mergePiece and clearLines on their own -----
\* The functions are applied to grids and pieces drawn from bounded sets:
\* board is the grid, active the piece, ev the call made last with its
\* argument grid as it is after the call (argAfter) and its result (ret).
\* Calls explored from each start state
MaxCalls == 2

\* Rows filled completely, rows filled but for one cell
FullRowChoices == SUBSET {3, 7, ROWS - 1}

PartRowChoices == {{}, {0, 8, ROWS - 2}}

GridOf(full, part) ==
  [y \in 1..ROWS |->
     [x \in 1..COLS |->
        IF (y - 1) \in full THEN TETROMINOES.O.c
        ELSE IF (y - 1) \in part /\ x # ((y - 1) % COLS) + 1 THEN TETROMINOES.T.c
        ELSE null]]

\* Columns and rows of the piece: outside, at and inside the walls, above
\* the top, in the middle, at the floor
PieceXs == {-1, 0, 3, COLS - 3, COLS - 1}

PieceYs == {-2, -1, 6, ROWS - 2}

PieceAt(k, turned, x, y) ==
  [pieceOf(k) EXCEPT !.m = IF turned THEN rotateMatrixCW(@) ELSE @,
                     !.x = x, !.y = y]

PureInit ==
  \E full \in FullRowChoices, part \in PartRowChoices :
  \E k \in Kinds, turned \in BOOLEAN, x \in PieceXs, y \in PieceYs :
  \E F \in {FirstRender(ORDER, ORDER)} :
        /\ board = GridOf(full, part)
        /\ active = PieceAt(k, turned, x, y)
        /\ queue = F.queue /\ nextBag = F.nextBag /\ running = F.running
        /\ score = F.score /\ lines = F.lines /\ level = F.level
        /\ hold = F.hold /\ canHold = F.canHold /\ accRef = F.acc
        /\ lastTimeRef = F.lastTime /\ gameOver = F.over /\ clock = F.clock
        /\ pausedMs = F.paused /\ draws = F.draws
        /\ holdTimerRef = NoTimer
        /\ firstRender = F
        /\ ev = [cmd |-> "None", argAfter |-> board, ret |-> FALSE]
        /\ steps = 0

PureFrame ==
  <<active, queue, nextBag, running, score, lines, level, hold, canHold, accRef,
    lastTimeRef, holdTimerRef, firstRender, gameOver, clock, pausedMs, draws>>

\* collides(board, active)
CallCollides ==
  /\ steps < MaxCalls
  /\ ev' = [cmd |-> "collides", argAfter |-> board, ret |-> collides(board, active)]
  /\ steps' = steps + 1
  /\ UNCHANGED <<board, PureFrame>>

\* board = mergePiece(board, active), the grid stored at heap addresses 1..ROWS
CallMergePiece ==
  /\ steps < MaxCalls
  /\ \E b \in {[y \in 1..ROWS |-> y]} : \E r \in {mergePieceRefs(board, b, active)} :
        /\ board' = Deref(r.heap, r.ref)
        /\ ev' = [cmd |-> "mergePiece", argAfter |-> Deref(r.heap, b), ret |-> FALSE]
  /\ steps' = steps + 1
  /\ UNCHANGED PureFrame

\* { board, cleared } = clearLines(board)
CallClearLines ==
  /\ steps < MaxCalls
  /\ \E res \in {clearLines(board)} :
        /\ board' = res.board
        /\ ev' = [cmd |-> "clearLines", argAfter |-> board, ret |-> res.cleared]
  /\ steps' = steps + 1
  /\ UNCHANGED PureFrame

PureNext ==
  \/ CallCollides
  \/ CallMergePiece
  \/ CallClearLines

PureSpec == PureInit /\ [][PureNext]_vars

\* ----- Properties -----
PieceCommands ==
  {"MoveLeft", "MoveRight", "SoftDrop", "HardDrop", "RotateCW", "RotateCCW", "Hold"}

\* C1: after a handler that locked a piece, a spawned piece that overlaps a
\* filled cell of the grid as the lock left it means the game is over
\* (not running, the spawn recorded as collided).
C1_SpawnOverlapEndsGame ==
  (ev.locks >= 1 /\ collides(board, active)) => (gameOver /\ ~running)

\* C2: once a spawn has collided, every step that is not a Restart leaves the
\* game over and not running, and leaves board, active piece, score and lines
\* as they were.
C2_GameOverIsTerminal ==
  [][(gameOver /\ ev'.cmd # "Restart")
       => (gameOver' /\ ~running' /\ UNCHANGED <<board, active, score, lines>>)]_vars

\* C3: while the game is not running (paused or over), a piece command on any
\* input path leaves board, active piece, queue, hold slot, score, lines and
\* level unchanged.
C3_CommandsIdleWhenNotRunning ==
  [][(~running /\ ev'.cmd \in PieceCommands)
       => UNCHANGED <<board, active, queue, hold, score, lines, level>>]_vars

\* C4: a frame that drains k >= 1 drop intervals on a piece with at least k
\* free rows below it leaves the piece exactly k rows lower and carries less
\* than one interval forward.
C4_FrameAppliesEveryTick ==
  [][(ev'.cmd = "Tick" /\ ev'.ticks >= 1 /\ dropDist(board, active) >= ev'.ticks)
       => (active'.y = active.y + ev'.ticks /\ accRef' < dropMsOf(level))]_vars

\* C5: in every reachable state the level is 1 + floor(lines / 10).
C5_LevelFromLines == level = 1 + (lines \div 10)

\* The piece as it is merged by the handler of command cmd
LockedPiece(cmd) == IF cmd = "HardDrop" THEN getGhost(board, active) ELSE active

\* Rows cleared by locking the active piece by command cmd in this state
ClearedBy(cmd) == clearLines(mergePiece(board, LockedPiece(cmd))).cleared

\* C6: a step that locks the piece and clears n rows adds table(n) * level,
\* with the level before the step, to the score (a hard drop adds its
\* 2 points per dropped row as well).
C6_LockScore ==
  [][ev'.locks >= 1
       => score' = score
                   + (IF ev'.cmd = "HardDrop" THEN 2 * dropDist(board, active) ELSE 0)
                   + (CASE ClearedBy(ev'.cmd) = 0 -> 0
                        [] ClearedBy(ev'.cmd) = 1 -> 100
                        [] ClearedBy(ev'.cmd) = 2 -> 300
                        [] ClearedBy(ev'.cmd) = 3 -> 500
                        [] OTHER -> 800) * level]_vars

\* C7: a Hold that follows a Hold which took effect, with no lock in between,
\* leaves active piece, hold slot, queue and board unchanged.
C7_OneHoldPerPiece ==
  [][(ev.cmd = "Hold" /\ ev.took /\ ev'.cmd = "Hold")
       => UNCHANGED <<active, hold, queue, board>>]_vars

\* Piece p has kind k in its spawn matrix, centred, its first filled row on row 0
AtSpawn(p, k) ==
  /\ p.k = k
  /\ p.m = TETROMINOES[k].m
  /\ p.c = TETROMINOES[k].c
  /\ p.x = (COLS - Len(p.m[1])) \div 2
  /\ p.y = -getTopOffset(p.m)

\* C8: a hold that is carried out (hold available; on the keyboard path the
\* game running) exchanges kinds: with an occupied slot the active piece
\* becomes the held kind at its spawn placement, the slot takes the previous
\* active kind and queue and next bag are untouched; with an empty slot the
\* slot takes the active kind, the active piece becomes the head of the queue
\* at its spawn placement, and the upcoming sequence loses exactly that head
\* (the next bag moving up, and a new bag drawn, when the queue runs out).
C8_HoldExchange ==
  [][(ev'.cmd = "Hold" /\ canHold /\ (running \/ ev'.took))
       => /\ hold' = active.k
          /\ IF hold # null
             THEN /\ AtSpawn(active', hold)
                  /\ queue' = queue /\ nextBag' = nextBag
             ELSE /\ AtSpawn(active', Head(queue))
                  /\ \/ queue' = Tail(queue) /\ queue' # <<>> /\ nextBag' = nextBag
                     \/ Tail(queue) = <<>> /\ queue' = nextBag /\ IsBag(nextBag')]_vars

\* A hold into an occupied slot has been carried out
C8_Witness ==
  ev.cmd = "Hold" /\ ev.took /\ ~canHold /\ hold # null /\ AtSpawn(active, active.k)

\* r is m turned by a quarter: clockwise the cell of row y, column x goes to
\* row x, column h + 1 - y; counter-clockwise to row w + 1 - x, column y
IsQuarterTurn(dir, m, r) ==
  LET h == Len(m)
      w == Len(m[1])
  IN  /\ Len(r) = w
      /\ \A i \in 1..w : Len(r[i]) = h
      /\ \A y \in 1..h : \A x \in 1..w :
            IF dir = "CW" THEN r[x][h + 1 - y] = m[y][x]
                          ELSE r[w + 1 - x][y] = m[y][x]

DirOf(cmd) == IF cmd = "RotateCW" THEN "CW" ELSE "CCW"

\* The active piece with matrix r, dx columns to the right
Placed(r, dx) == [active EXCEPT !.m = r, !.x = @ + dx]

\* C9: a rotation that is carried out (on the keyboard and touch paths: the
\* game running) turns the matrix by a quarter and tries the column offsets
\* 0, -1, +1, -2, +2 in this order; the piece takes the turned matrix at the
\* first offset that does not collide, its row unchanged, and stays as it is
\* when all five collide.
C9_RotateWithKicks ==
  [][(ev'.cmd \in {"RotateCW", "RotateCCW"} /\ (running \/ ev'.took))
       => LET offs == <<0, -1, 1, -2, 2>>
          IN  \E r \in {rotFn(DirOf(ev'.cmd), active.m)} :
              \E fit \in {{i \in 1..5 : ~collides(board, Placed(r, offs[i]))}} :
                /\ IsQuarterTurn(DirOf(ev'.cmd), active.m, r)
                /\ IF fit = {} THEN active' = active
                   ELSE \E i \in fit : /\ \A j \in fit : i <= j
                                       /\ active' = Placed(r, offs[i])]_vars

\* A clockwise rotation has left an I piece horizontal against the right wall
C9_Witness ==
  /\ ev.cmd = "RotateCW" /\ ev.took
  /\ active.k = "I" /\ Len(active.m) = 1 /\ active.x = COLS - 4

VerticalI(p) == p.k = "I" /\ Len(p.m) = 4

\* The four cells of a horizontal I ending at the right wall, on the top row
\* of the active piece, are free
LeftFree == ~collides(board, [active EXCEPT !.m = << <<1, 1, 1, 1>> >>, !.x = COLS - 4])

\* C10 as stated: a vertical I in column COLS-1, rotated clockwise with the
\* cells to its left free, ends up horizontal inside the playfield.
C10_WallKickFits ==
  [][(ev'.cmd = "RotateCW" /\ running /\ VerticalI(active)
        /\ active.x = COLS - 1 /\ LeftFree)
       => (Len(active'.m) = 1 /\ active'.x = COLS - 4 /\ active'.y = active.y)]_vars

\* C10 amended: the kicks reach two columns.  A vertical I one or two columns
\* from the right wall (column COLS-2 or COLS-3), rotated clockwise with the
\* cells to its left free, ends up horizontal in columns COLS-4..COLS-1 of the
\* same row; in column COLS-1, where the fit needs three columns, the rotation
\* is rejected and the piece is unchanged.
C10_WallKickReach ==
  [][(ev'.cmd = "RotateCW" /\ running /\ VerticalI(active)
        /\ active.x \in (COLS - 3)..(COLS - 1) /\ LeftFree)
       => IF active.x = COLS - 1 THEN active' = active
          ELSE (Len(active'.m) = 1 /\ active'.x = COLS - 4 /\ active'.y = active.y)]_vars

\* A clockwise rotation of the vertical I in column COLS-1 has been rejected
C10_Witness ==
  /\ ev.cmd = "RotateCW" /\ ~ev.took /\ running
  /\ VerticalI(active) /\ active.x = COLS - 1 /\ LeftFree

\* C11: a step of soft drops (one for Arrow Down and for each call of the
\* soft-drop button, two for a swipe down) never locks the piece and adds to
\* the score exactly the number of rows the piece descended.
C11_SoftDropPaysPerRow ==
  [][ev'.cmd = "SoftDrop"
       => /\ board' = board /\ queue' = queue /\ active'.k = active.k
          /\ score' - score = active'.y - active.y]_vars

\* The largest number of successive one-row descents of the active piece
\* that do not collide
LandingDist ==
  CHOOSE d \in 0..(ROWS + 4) :
    /\ collides(board, [active EXCEPT !.y = @ + d + 1])
    /\ \A i \in 1..d : ~collides(board, [active EXCEPT !.y = @ + i])

\* C12: a hard drop that is carried out (on the keyboard and touch paths: the
\* game running) adds 2 points per row of the landing distance and, in the
\* same step, merges the piece at the landing position, clears the full rows,
\* adds them to lines, scores them at the level before the step, recomputes
\* the level from the lines, and makes the head of the queue the active piece
\* at its spawn placement.
C12_HardDropLocks ==
  [][(ev'.cmd = "HardDrop" /\ (running \/ ev'.took))
       => \E dist \in {LandingDist} :
          \E res \in {clearLines(mergePiece(board,
                                            [active EXCEPT !.y = @ + dist]))} :
              /\ board' = res.board
              /\ lines' = lines + res.cleared
              /\ score' = score + 2 * dist + scoreFor(level, res.cleared)
              /\ level' = IF res.cleared > 0 THEN 1 + (lines' \div 10) ELSE level
              /\ AtSpawn(active', Head(queue))
              /\ ev'.locks = 1]_vars

\* A hard drop has locked a piece whose merge completed a row
C12_Witness ==
  ev.cmd = "HardDrop" /\ ev.locks = 1 /\ lines >= 1 /\ score >= 100

\* C13: a frame that finds the game not running calls no gravity tick and
\* leaves the accumulator and the game as they are, however long it took; a
\* frame that finds the game running calls no more ticks than the accumulator
\* it found plus the time since the previous frame (paused or not) hold.
C13_PauseHoldsTime ==
  [][ev'.cmd = "Tick"
       => IF ~running
          THEN ev'.ticks = 0 /\ accRef' = accRef /\ UNCHANGED game
          ELSE ev'.ticks <= (accRef + (clock' - clock)) \div dropMsOf(level)]_vars

\* Frames saw two drop intervals or more pass while the game was paused, and
\* the frame after the resume called a single tick
C13_Witness ==
  /\ ev.cmd = "Tick" /\ running /\ ev.ticks = 1
  /\ pausedMs >= 2 * DROP_BASE_MS

\* C14: after a Restart the board is empty, score and lines are 0, the level
\* is 1, the hold slot is empty and available, the game is running, the next
\* bag is a bag, and the active piece is the first kind of the bag this
\* restart drew for the queue, at its spawn placement, the queue holding the
\* rest of that bag.
C14_RestartStartsFresh ==
  [][ev'.cmd = "Restart"
       => /\ board' = emptyBoard(ROWS, COLS)
          /\ score' = 0 /\ lines' = 0 /\ level' = 1
          /\ hold' = null /\ canHold' /\ running' /\ ~gameOver'
          /\ IsBag(nextBag')
          /\ AtSpawn(active', Head(ev'.bag1))
          /\ queue' = Tail(ev'.bag1)]_vars

Range(q) == {q[i] : i \in DOMAIN q}

Distinct(q) == \A i, j \in DOMAIN q : i # j => q[i] # q[j]

\* C15: the next bag is a permutation of the 7 kinds; the queue holds 1 to 7
\* distinct kinds, namely the kinds of the current group of 7 draws that are
\* not drawn yet (a whole permutation when the group has just been
\* completed); and, counted from the last restart, draws 7k+1 .. 7k+7 hold
\* each kind exactly once.
C15_BagInvariant ==
  LET n == Len(draws)
      j == n % 7
  IN  /\ IsBag(nextBag)
      /\ Len(queue) \in 1..7 /\ Distinct(queue)
      /\ n >= 1
      /\ IF j = 0 THEN IsBag(queue)
         ELSE /\ Len(queue) = 7 - j
              /\ Range(queue) = Kinds \ Range(SubSeq(draws, n - j + 1, n))
      /\ \A k \in 0..(n \div 7) :
            7 * k + 7 <= n => IsBag(SubSeq(draws, 7 * k + 1, 7 * k + 7))

\* The seventh draw of a group has emptied the queue and the next bag has
\* become the queue
C15_Witness ==
  Len(draws) = 7 /\ IsBag(queue) /\ ev.locks >= 1

\* Occurrences of kind k among draws i .. i + 13
InWindow(k, i) == Cardinality({j \in i..(i + 13) : draws[j] = k})

\* C16 as stated: every 14 consecutive draws, from any position, hold each
\* kind exactly twice.
C16_AnyWindowTwice ==
  \A i \in 1..Len(draws) :
    i + 13 <= Len(draws) => \A k \in Kinds : InWindow(k, i) = 2

\* C16 amended: 14 consecutive draws that start with the first draw of a bag
\* (draw 7k+1) hold each kind exactly twice; 14 consecutive draws from any
\* other position hold each kind at least once and at most three times.
C16_AlignedWindowTwice ==
  \A i \in 1..Len(draws) :
    i + 13 <= Len(draws)
      => \A k \in Kinds : IF i % 7 = 1 THEN InWindow(k, i) = 2
                                       ELSE InWindow(k, i) \in 1..3

\* 14 consecutive draws that start inside a bag hold some kind three times
C16_Witness ==
  \E i \in 1..Len(draws) :
    i + 13 <= Len(draws) /\ i % 7 # 1 /\ \E k \in Kinds : InWindow(k, i) = 3

\* C17: collides is true exactly when some filled cell of the matrix lands on
\* a column below 0 or from COLS up, on a row from ROWS up, or on a row from 0
\* up whose grid cell is filled; a piece whose filled cells are all above row
\* 0 and inside the columns does not collide.
C17_CollidesRule ==
  [][ev'.cmd = "collides"
       => LET p   == active
              hit == \E y \in 1..Len(p.m) : \E x \in 1..Len(p.m[y]) :
                       /\ p.m[y][x] # 0
                       /\ LET nx == p.x + x - 1
                              ny == p.y + y - 1
                          IN  \/ nx < 0 \/ nx >= COLS \/ ny >= ROWS
                              \/ (ny >= 0 /\ board[ny + 1][nx + 1] # null)
              above == \A y \in 1..Len(p.m) : \A x \in 1..Len(p.m[y]) :
                         p.m[y][x] # 0
                           => (p.y + y - 1 < 0 /\ p.x + x - 1 \in 0..(COLS - 1))
          IN  /\ ev'.ret = hit
              /\ above => ev'.ret = FALSE]_vars

\* collides has answered no for a piece with a filled cell above row 0, over
\* a grid whose row 0 holds filled cells
C17_Witness ==
  /\ ev.cmd = "collides" /\ ev.ret = FALSE
  /\ active.y < 0
  /\ \E x \in 1..COLS : board[1][x] # null

\* Rows of grid b that are full
FullRows(b) == {y \in 1..ROWS : \A x \in 1..COLS : b[y][x] # null}

\* C18: clearLines returns the number of full rows and a grid of ROWS rows in
\* which every row that was not full has moved down by the number of full
\* rows below it and the rows at the top, as many as were full, are empty;
\* with no full row the grid returned is the grid given.
C18_ClearLinesRepacks ==
  [][ev'.cmd = "clearLines"
       => LET full == FullRows(board)
              n    == Cardinality(full)
          IN  /\ ev'.ret = n
              /\ Len(board') = ROWS
              /\ \A y \in 1..n : board'[y] = [x \in 1..COLS |-> null]
              /\ \A y \in (1..ROWS) \ full :
                    board'[y + Cardinality({z \in full : z > y})] = board[y]
              /\ n = 0 => board' = board]_vars

\* clearLines has removed rows 3 and 7 of a grid with partly filled rows
C18_Witness ==
  /\ ev.cmd = "clearLines" /\ ev.ret = 2
  /\ FullRows(ev.argAfter) = {4, 8}
  /\ \E y \in 1..ROWS : \E x1, x2 \in 1..COLS : board[y][x1] # null /\ board[y][x2] = null

\* C19: mergePiece returns a grid that holds the colour of the piece at the
\* filled cells of the piece inside the grid and the contents of the grid
\* given everywhere else, and the grid given holds after the call what it
\* held before.
C19_MergeCopies ==
  [][ev'.cmd = "mergePiece"
       => /\ ev'.argAfter = board
          /\ Len(board') = ROWS
          /\ \A y \in 1..ROWS : \A x \in 1..COLS :
                board'[y][x] = IF <<x - 1, y - 1>> \in Cells(active)
                               THEN active.c ELSE board[y][x]
          /\ board' = mergePiece(board, active)]_vars

\* mergePiece has written a piece lying partly outside the grid over a grid
\* with filled cells, and the grid returned differs from the grid given
C19_Witness ==
  /\ ev.cmd = "mergePiece"
  /\ board # ev.argAfter
  /\ \E c \in Cells(active) : c[1] < 0 \/ c[1] >= COLS \/ c[2] < 0
  /\ FullRows(ev.argAfter) # {}

\* C20: a move by one column whose translated piece collides leaves the game
\* unchanged; any move leaves the active piece as it is or one column aside
\* with matrix, kind and row unchanged, and leaves board, queue, hold slot,
\* score, lines and level unchanged.
C20_MoveOnlyShifts ==
  [][ev'.cmd \in {"MoveLeft", "MoveRight"}
       => LET dx == IF ev'.cmd = "MoveLeft" THEN -1 ELSE 1
              t  == [active EXCEPT !.x = @ + dx]
          IN  /\ collides(board, t) => UNCHANGED game
              /\ active' \in {active, t}
              /\ UNCHANGED <<board, queue, hold, score, lines, level>>]_vars

\* C21: once a spawn has collided and the game has stopped, the status shown
\* is Game Over, not Paused, and there is no active piece.
C21_GameOverShown ==
  (gameOver /\ ~running)
    => (statusOverlay(running, active) = "Game Over" /\ IsNull(active))

\* The empty board with the four cells of an O piece, in its color c, on the
\* two bottom rows of columns x and x + 1
BottomSquare(x, c) ==
  [r \in 1..ROWS |->
    [q \in 1..COLS |->
      IF r \in {ROWS - 1, ROWS} /\ q \in {x + 1, x + 2} THEN c ELSE null]]

OOverEmpty == board = emptyBoard(ROWS, COLS) /\ ~IsNull(active) /\ active.k = "O"

\* C22 as stated: a hard drop of an O piece over the empty board leaves its
\* four cells on the bottom-left 2x2 region (columns 0 and 1), every other
\* cell empty, and clears no line.
C22_ODropsBottomLeft ==
  [][(ev'.cmd = "HardDrop" /\ (running \/ ev'.took) /\ OOverEmpty)
       => (board' = BottomSquare(0, active.c) /\ lines' = lines)]_vars

\* C22 amended: the hard drop keeps the columns of the piece.  Its four cells
\* fill the two bottom rows of the two columns the piece was in, every other
\* cell is empty and no line is cleared: the bottom-left region for a piece
\* that stood against the left wall, columns 4 and 5 for a piece dropped from
\* its spawn position.
C22_ODropsInItsColumns ==
  [][(ev'.cmd = "HardDrop" /\ (running \/ ev'.took) /\ OOverEmpty)
       => /\ board' = BottomSquare(active.x, active.c)
          /\ lines' = lines
          /\ active.x = 0 => board' = BottomSquare(0, active.c)
          /\ active.x = (COLS - 2) \div 2
               => board' = BottomSquare(4, active.c)]_vars

\* A hard drop has left nothing but an O piece on the board, on the two
\* bottom rows of the middle columns
C22_Witness ==
  /\ ev.cmd = "HardDrop" /\ ev.locks = 1 /\ lines = 0
  /\ board = BottomSquare((COLS - 2) \div 2, TETROMINOES["O"].c)

\* A hard drop has left nothing but an O piece on the board, on the
\* bottom-left 2x2 region
C22_WitnessLeft ==
  /\ ev.cmd = "HardDrop" /\ ev.locks = 1 /\ lines = 0
  /\ board = BottomSquare(0, TETROMINOES["O"].c)

\* C23: a step other than a restart that locks the piece removes the full
\* rows of the board with the piece merged, adds their number to lines once
\* and adds their table score (at the level before the step, besides the
\* 2 points per row of a hard drop) to the score once, also when the frame
\* called stepDown several times; a step that locks nothing leaves board and
\* lines as they are.
C23_LockCountedOnce ==
  [][ev'.cmd # "Restart"
       => IF ev'.locks >= 1
          THEN \E cl \in {clearLines(mergePiece(board, LockedPiece(ev'.cmd)))} :
                 /\ board' = cl.board
                 /\ lines' = lines + cl.cleared
                 /\ score' = score + scoreFor(level, cl.cleared)
                              + (IF ev'.cmd = "HardDrop"
                                 THEN 2 * dropDist(board, active) ELSE 0)
          ELSE board' = board /\ lines' = lines]_vars

\* C24: in every reachable state in which the game is running and there is
\* an active piece, the piece does not collide with the board: its filled
\* cells are inside the columns, above row ROWS, and on no filled cell.
C24_ActiveNeverCollides ==
  (running /\ ~IsNull(active)) => ~collides(board, active)

\* C25: a step that spawns no piece and places none from the hold slot (no
\* draw from the queue, neither a restart nor a hold) leaves the kind of the
\* active piece as it is and does not decrease its row, on every input path,
\* the repeats of a press-and-hold button included.
C25_PieceNeverGoesBack ==
  [][(~IsNull(active) /\ draws' = draws /\ ev'.cmd \notin {"Restart", "Hold"})
       => (active'.k = active.k /\ active'.y >= active.y)]_vars

====
